---------------------------- MODULE Spec2Model ----------------------------
(***************************************************************************)
(* Model of sentiment-analyzer/backend/app.py: the text normaliser, the    *)
(* default-column heuristic, the classification loop, the aggregator and   *)
(* the three request handlers working on the in-memory UPLOAD_STORE.       *)
(*                                                                         *)
(* Strings are sequences of characters.  A character is written as a       *)
(* one-letter string, except the ones that have no printable ASCII form:   *)
(*   "CR" "LF"  carriage return, line feed                                 *)
(*   "TAB"      a whitespace character that is not a line break            *)
(*   "RSQUO"    the curly apostrophe U+2019                                *)
(*   "QUOTE"    the double quote                                           *)
(* The three sentiment names are written without accent: "negatif" stands  *)
(* for the source's "négatif".                                             *)
(***************************************************************************)
EXTENDS Integers, Sequences, FiniteSets, TLC

VARIABLES
    UPLOAD_STORE,   \* app.py:263, upload_id -> entry (a dict with optional keys)
    last,           \* the last request handled and the response it got
    analysed,       \* history: upload_id -> results returned by its last 200 analyze
    value,          \* clean_text study: the input string
    once,           \* clean_text(value)
    twice,          \* clean_text(clean_text(value))
    columns,        \* choose_default_column study: the candidate list
    chosen,         \* what choose_default_column returned
    records,        \* summarise_results study: the Record list
    top_n,          \* compute_word_cloud's second parameter
    summary,        \* what summarise_results returned (or that it raised)
    word_cloud,     \* what compute_word_cloud(records, top_n) returned
    col_cells,      \* build_results study: the cells of the chosen column
    answers,        \* the classifier's answer to each invocation
    built,          \* what build_results returned (or that it raised)
    pc              \* position of the study being run

vars == <<UPLOAD_STORE, last, analysed, value, once, twice, columns, chosen,
          records, top_n, summary, word_cloud, col_cells, answers, built, pc>>

\* The variables of each study, and of the service.
varsService == <<UPLOAD_STORE, last, analysed>>
varsClean == <<value, once, twice>>
varsChoose == <<columns, chosen>>
varsSumm == <<records, top_n, summary, word_cloud>>
varsBuild == <<col_cells, answers, built>>

Idle == "idle"

\* What the variables of a part hold while another part is explored.
ServiceIdle == UPLOAD_STORE = <<>> /\ last = Idle /\ analysed = <<>>
CleanIdle == value = <<>> /\ once = Idle /\ twice = Idle
ChooseIdle == columns = <<>> /\ chosen = Idle
SummIdle == records = <<>> /\ top_n = 0 /\ summary = Idle /\ word_cloud = Idle
BuildIdle == col_cells = <<>> /\ answers = <<>> /\ built = Idle

-----------------------------------------------------------------------------
(* Bounds of the explored inputs.                                          *)

MaxLen == 4          \* longest string given to clean_text
MaxColumns == 3      \* longest candidate list given to choose_default_column
MaxRecords == 3      \* longest Record list given to summarise_results
MaxRows == 3         \* most cells of a column given to build_results

-----------------------------------------------------------------------------
(* Characters and the classes the regular expressions use.                 *)

LineBreaks == {"CR", "LF"}                      \* [\r\n]
Whitespace == {" ", "TAB", "CR", "LF"}           \* \s, str.isspace
Letters == {"a", "b", "e", "l", "s", "t", "x", "v", "i", "d", "L", "T", "A"}
Digits == {"7"}
WordChars == Letters \cup Digits \cup {"_"}       \* \w
Apostrophes == {"'", "RSQUO"}
Punctuation == {",", "!", "QUOTE"}

Nothing == <<>>      \* the empty string

\* The sequences over S of length at most n.
SeqUpTo(S, n) == UNION {[1..k -> S] : k \in 0..n}

RECURSIVE DropWhile(_, _)
DropWhile(s, cls) ==
    IF s = <<>> \/ Head(s) \notin cls THEN s ELSE DropWhile(Tail(s), cls)

\* re.sub(cls+, rep, s): every maximal run of characters of cls becomes rep.
RECURSIVE SubRuns(_, _, _)
SubRuns(s, cls, rep) ==
    IF s = <<>> THEN <<>>
    ELSE IF Head(s) \in cls
         THEN <<rep>> \o SubRuns(DropWhile(Tail(s), cls), cls, rep)
         ELSE <<Head(s)>> \o SubRuns(Tail(s), cls, rep)

\* re.sub([^keep], rep, s): every character outside keep becomes rep.
SubEach(s, keep, rep) == [i \in 1..Len(s) |-> IF s[i] \in keep THEN s[i] ELSE rep]

RECURSIVE DropLast(_, _)
DropLast(s, cls) ==
    IF s = <<>> \/ s[Len(s)] \notin cls THEN s
    ELSE DropLast(SubSeq(s, 1, Len(s) - 1), cls)

\* str.strip()
strip(s) == DropLast(DropWhile(s, Whitespace), Whitespace)

\* A plausible slip: whitespace is collapsed before punctuation is replaced.
clean_text_reordered(val) ==
    LET t1 == SubRuns(val, LineBreaks, " ")
        t2 == strip(SubRuns(t1, Whitespace, " "))
    IN  SubEach(t2, WordChars \cup Whitespace \cup Apostrophes, " ")

clean_text(val) ==
    LET t1 == SubRuns(val, LineBreaks, " ")
        t2 == SubEach(t1, WordChars \cup Whitespace \cup Apostrophes, " ")
    IN  strip(SubRuns(t2, Whitespace, " "))

-----------------------------------------------------------------------------
(* The clean_text study: every string up to MaxLen over one character of   *)
(* each class is cleaned once and then once more.                          *)

CleanAlphabet == {"LF", "CR", " ", "TAB", "e", "_", "'", "RSQUO", ","}

InitClean ==
    /\ value \in SeqUpTo(CleanAlphabet, MaxLen)
    /\ once = Idle /\ twice = Idle
    /\ pc = "clean"
    /\ ServiceIdle /\ ChooseIdle /\ SummIdle /\ BuildIdle

CleanOnce ==
    /\ pc = "clean"
    /\ once' = clean_text(value)
    /\ pc' = "clean_again"
    /\ UNCHANGED <<value, twice, varsService, varsChoose, varsSumm, varsBuild>>

CleanTwice ==
    /\ pc = "clean_again"
    /\ twice' = clean_text(once)
    /\ pc' = "cleaned"
    /\ UNCHANGED <<value, once, varsService, varsChoose, varsSumm, varsBuild>>

NextClean == CleanOnce \/ CleanTwice

SpecClean == InitClean /\ [][NextClean]_vars

\* C7: clean_text is idempotent and never lengthens its input.
C7_CleanIdempotentNoLonger ==
    /\ pc \in {"clean_again", "cleaned"} => Len(once) <= Len(value)
    /\ pc = "cleaned" => twice = once

\* C7 witness: a string with a line break and punctuation was cleaned twice;
\* the first pass changed it and left something.
C7_Witness ==
    /\ pc = "cleaned"
    /\ \E i \in 1..Len(value) : value[i] \in LineBreaks
    /\ \E i \in 1..Len(value) : value[i] \in Punctuation
    /\ once # value /\ once # Nothing

-----------------------------------------------------------------------------
(* choose_default_column, app.py:143-149.                                  *)

\* str.lower() on the characters used here.
LowerChar(c) ==
    CASE c = "L" -> "l"
      [] c = "T" -> "t"
      [] c = "A" -> "a"
      [] OTHER -> c

lower(s) == [i \in 1..Len(s) |-> LowerChar(s[i])]

\* Optional[...] values.
None == [some |-> FALSE, val |-> <<>>]
Some(x) == [some |-> TRUE, val |-> x]

priority_keywords == <<
    <<"t", "e", "x", "t", "e">>,
    <<"t", "e", "x", "t">>,
    <<"p", "h", "r", "a", "s", "e">>,
    <<"c", "o", "m", "m", "e", "n", "t", "a", "i", "r", "e">>,
    <<"a", "v", "i", "s">>,
    <<"r", "e", "v", "i", "e", "w">>,
    <<"d", "e", "s", "c", "r", "i", "p", "t", "i", "o", "n">> >>

\* {col.lower(): col for col in columns}: a later column replaces an earlier
\* one that lowers to the same key.
lowered(cols) ==
    [k \in {lower(cols[i]) : i \in 1..Len(cols)} |->
        cols[CHOOSE i \in 1..Len(cols) :
                /\ lower(cols[i]) = k
                /\ \A j \in 1..Len(cols) : lower(cols[j]) = k => j <= i]]

RECURSIVE choose_loop(_, _, _)
choose_loop(cols, low, n) ==
    IF n > Len(priority_keywords)
    THEN IF cols # <<>> THEN Some(cols[1]) ELSE None
    ELSE IF priority_keywords[n] \in DOMAIN low
         THEN Some(low[priority_keywords[n]])
         ELSE choose_loop(cols, low, n + 1)

choose_default_column(cols) == choose_loop(cols, lowered(cols), 1)

(* The study: every list of at most MaxColumns distinct names of the pool.  *)
(* pandas makes the column names of a parsed file distinct, but two may    *)
(* differ in letter case only.                                             *)
ColumnPool == {
    <<"t", "e", "x", "t">>,
    <<"T", "e", "x", "t">>,
    <<"t", "e", "x", "t", "e">>,
    <<"a", "v", "i", "s">>,
    <<"A", "v", "i", "s">>,
    <<"i", "d">> }

InitChoose ==
    /\ columns \in {c \in SeqUpTo(ColumnPool, MaxColumns) :
                        \A i, j \in 1..Len(c) : c[i] = c[j] => i = j}
    /\ chosen = Idle
    /\ pc = "choose"
    /\ ServiceIdle /\ CleanIdle /\ SummIdle /\ BuildIdle

Choose ==
    /\ pc = "choose"
    /\ chosen' = choose_default_column(columns)
    /\ pc' = "chosen"
    /\ UNCHANGED <<columns, varsService, varsClean, varsSumm, varsBuild>>

NextChoose == Choose

SpecChoose == InitChoose /\ [][NextChoose]_vars

\* The keywords that some candidate's name equals, ignoring case.
MatchedKeywords(cols) ==
    {n \in 1..Len(priority_keywords) :
        \E i \in 1..Len(cols) : lower(cols[i]) = priority_keywords[n]}

\* C2: the first keyword (in priority order) that some candidate matches
\* selects the FIRST candidate in list order matching it; with no match the
\* first candidate is returned, and none for an empty list.
C2_FirstMatchingCandidate ==
    pc = "chosen" =>
        IF MatchedKeywords(columns) # {}
        THEN LET n == CHOOSE m \in MatchedKeywords(columns) :
                        \A o \in MatchedKeywords(columns) : m <= o
                 i == CHOOSE a \in 1..Len(columns) :
                        /\ lower(columns[a]) = priority_keywords[n]
                        /\ \A b \in 1..Len(columns) :
                              lower(columns[b]) = priority_keywords[n] => a <= b
             IN  chosen = Some(columns[i])
        ELSE IF columns # <<>> THEN chosen = Some(columns[1]) ELSE chosen = None

-----------------------------------------------------------------------------
(* collections.Counter: a dict, so its keys keep the order of their first  *)
(* insertion.  Modelled as the sequence of [key, count] in that order.     *)

CounterKeys(c) == {c[i].key : i \in 1..Len(c)}

CounterGet(c, k) ==
    IF k \in CounterKeys(c)
    THEN c[CHOOSE i \in 1..Len(c) : c[i].key = k].count
    ELSE 0

CounterAdd(c, k) ==
    IF k \in CounterKeys(c)
    THEN [i \in 1..Len(c) |->
            IF c[i].key = k THEN [key |-> k, count |-> c[i].count + 1] ELSE c[i]]
    ELSE Append(c, [key |-> k, count |-> 1])

\* Counter.update(iterable) and Counter(iterable)
RECURSIVE CounterUpdate(_, _)
CounterUpdate(c, items) ==
    IF items = <<>> THEN c
    ELSE CounterUpdate(CounterAdd(c, Head(items)), Tail(items))

RemoveAt(c, i) == SubSeq(c, 1, i - 1) \o SubSeq(c, i + 1, Len(c))

\* A plausible slip: among equal counts the entry inserted LAST comes first.
RECURSIVE most_common_last(_, _)
most_common_last(c, n) ==
    IF n <= 0 \/ c = <<>> THEN <<>>
    ELSE LET i == CHOOSE a \in 1..Len(c) :
                    /\ \A b \in 1..Len(c) : c[b].count <= c[a].count
                    /\ \A b \in 1..Len(c) : c[b].count = c[a].count => b <= a
         IN  <<c[i]>> \o most_common_last(RemoveAt(c, i), n - 1)

\* Counter.most_common(n) with n given: heapq.nlargest(n, items, key=count),
\* which is sorted(items, key=count, reverse=True)[:n]; the sort is stable,
\* so entries of equal count stay in insertion order.
RECURSIVE most_common(_, _)
most_common(c, n) ==
    IF n <= 0 \/ c = <<>> THEN <<>>
    ELSE LET i == CHOOSE a \in 1..Len(c) :
                    /\ \A b \in 1..Len(c) : c[b].count <= c[a].count
                    /\ \A b \in 1..Len(c) : c[b].count = c[a].count => a <= b
         IN  <<c[i]>> \o most_common(RemoveAt(c, i), n - 1)

-----------------------------------------------------------------------------
(* compute_word_cloud, app.py:178-195.                                     *)

STOPWORDS == {
    <<"l", "e", "s">>, <<"d", "e", "s">>,
    <<"u", "n", "e">>, <<"a", "v", "e", "c">>,
    <<"p", "o", "u", "r">>, <<"s", "u", "r">>,
    <<"q", "u", "e">>, <<"q", "u", "i">>,
    <<"d", "a", "n", "s">>, <<"e", "s", "t">>,
    <<"s", "o", "n", "t">>, <<"p", "a", "r">>,
    <<"v", "o", "u", "s">>, <<"n", "o", "u", "s">>,
    <<"e", "l", "l", "e", "s">>, <<"i", "l", "s">>,
    <<"m", "a", "i", "s">>, <<"p", "a", "s">>,
    <<"p", "l", "u", "s">>, <<"t", "r", "e", "s">>,
    <<"t", "r", "E_GRAVE", "s">>, <<"t", "r", "o", "p">>,
    <<"c", "e", "t", "t", "e">>, <<"c", "e", "t">>,
    <<"c", "e", "s">>, <<"a", "u">>,
    <<"a", "u", "x">>, <<"d", "e">>,
    <<"d", "u">>, <<"l", "a">>,
    <<"l", "e">>, <<"u", "n">>,
    <<"e", "t">>, <<"n", "e">>,
    <<"s", "e">>, <<"c", "e">>,
    <<"s", "e", "s">>, <<"s", "o", "n">>,
    <<"s", "a">>, <<"l", "e", "u", "r">>,
    <<"l", "e", "u", "r", "s">>, <<"c", "o", "m", "m", "e">>,
    <<"t", "o", "u", "t", "e">>, <<"t", "o", "u", "t">>,
    <<"t", "o", "u", "s">>, <<"f", "a", "i", "r", "e">>,
    <<"e", "t", "r", "e">>, <<"E_CIRC", "t", "r", "e">>,
    <<"a", "v", "o", "i", "r">> }

DefaultTopN == 30

TokenChars == WordChars \cup {"'"}        \* [\w']

\* \b at position i of s, between s[i] and s[i+1] (i in 0..Len(s)).
Boundary(s, i) ==
    (i >= 1 /\ s[i] \in WordChars) # (i < Len(s) /\ s[i + 1] \in WordChars)

\* Where a match of [\w']+\b that starts after position i can end.
MatchEnds(s, i) ==
    {j \in (i + 1)..Len(s) :
        /\ \A k \in (i + 1)..j : s[k] \in TokenChars
        /\ Boundary(s, j)}

SetMax(S) == CHOOSE m \in S : \A o \in S : o <= m

\* re.findall(r"\b[\w']+\b", s), scanning from position i: the leftmost
\* match, taken greedily, then on from its end.
RECURSIVE findall_from(_, _)
findall_from(s, i) ==
    IF i >= Len(s) THEN <<>>
    ELSE IF Boundary(s, i) /\ MatchEnds(s, i) # {}
         THEN LET j == SetMax(MatchEnds(s, i))
              IN  <<SubSeq(s, i + 1, j)>> \o findall_from(s, j)
         ELSE findall_from(s, i + 1)

findall_tokens(s) == findall_from(s, 0)

\* A plausible slip: >= instead of >, and no stopword test.
keep_token_lenient(token) == Len(token) >= 2

\* app.py:185
keep_token(token) == Len(token) > 2 /\ token \notin STOPWORDS

RECURSIVE FilterTokens(_)
FilterTokens(tokens) ==
    IF tokens = <<>> THEN <<>>
    ELSE IF keep_token(Head(tokens))
         THEN <<Head(tokens)>> \o FilterTokens(Tail(tokens))
         ELSE FilterTokens(Tail(tokens))

\* app.py:182-186
item_tokens(item) == FilterTokens(findall_tokens(lower(item.clean_text)))

Categories == <<"positif", "neutre", "negatif">>
CategorySet == {Categories[i] : i \in 1..Len(Categories)}

EmptyCounters == [c \in CategorySet |-> <<>>]

\* app.py:180-187; frequency_by_sentiment[sentiment] raises KeyError for a
\* sentiment that is not one of the three keys.
RECURSIVE word_cloud_loop(_, _)
word_cloud_loop(results, freq) ==
    IF results = <<>> THEN [raised |-> "none", freq |-> freq]
    ELSE LET item == Head(results) IN
         IF item.sentiment \notin DOMAIN freq
         THEN [raised |-> "KeyError", freq |-> freq]
         ELSE word_cloud_loop(Tail(results),
                [freq EXCEPT ![item.sentiment] =
                    CounterUpdate(@, item_tokens(item))])

\* app.py:189-195
WordList(counter, n) ==
    LET top == most_common(counter, n)
    IN  [i \in 1..Len(top) |-> [text |-> top[i].key, value |-> top[i].count]]

compute_word_cloud(results, n) ==
    LET r == word_cloud_loop(results, EmptyCounters)
    IN  IF r.raised # "none"
        THEN [raised |-> r.raised, ret |-> EmptyCounters]
        ELSE [raised |-> "none",
              ret |-> [c \in CategorySet |-> WordList(r.freq[c], n)]]

-----------------------------------------------------------------------------
(* summarise_results, app.py:198-234.  A score is an integer number of     *)
(* ten-thousandths (0.95 is 9500), a percentage a number of hundredths.    *)

\* round(a / b, ...) to the nearest unit, halves to the even neighbour.
RoundDiv(a, b) ==
    LET q == a \div b
        r == a % b
    IN  IF 2 * r > b \/ (2 * r = b /\ q % 2 = 1) THEN q + 1 ELSE q

RECURSIVE SumSeq(_)
SumSeq(xs) == IF xs = <<>> THEN 0 ELSE Head(xs) + SumSeq(Tail(xs))

Sentiments(results) == [i \in 1..Len(results) |-> results[i].sentiment]
Scores(results) == [i \in 1..Len(results) |-> results[i].score]

\* app.py:202-204; scores_by_sentiment[item["sentiment"]] raises KeyError
\* for a sentiment that is not one of the three keys.
RECURSIVE scores_loop(_, _)
scores_loop(results, by) ==
    IF results = <<>> THEN [raised |-> "none", by |-> by]
    ELSE LET item == Head(results) IN
         IF item.sentiment \notin DOMAIN by
         THEN [raised |-> "KeyError", by |-> by]
         ELSE scores_loop(Tail(results),
                [by EXCEPT ![item.sentiment] = Append(@, item.score)])

NoneStr == "None"      \* Python's None where a string is expected

Raised(exc) == [raised |-> exc, ret |-> <<>>]
Returned(x) == [raised |-> "none", ret |-> x]

summarise_results(results) ==
    LET total == Len(results)
        counts == CounterUpdate(<<>>, Sentiments(results))
        average_score ==
            IF total # 0 THEN RoundDiv(SumSeq(Scores(results)), total) ELSE 0
        sc == scores_loop(results, [c \in CategorySet |-> <<>>])
        mean_by_sentiment ==
            [c \in CategorySet |->
                IF sc.by[c] # <<>>
                THEN RoundDiv(SumSeq(sc.by[c]), Len(sc.by[c])) ELSE 0]
        dominant_sentiment ==
            IF counts # <<>> THEN most_common(counts, 1)[1].key ELSE NoneStr
        distribution ==
            [c \in CategorySet |->
                [count |-> CounterGet(counts, c),
                 percentage |->
                    IF total # 0
                    THEN RoundDiv(CounterGet(counts, c) * 10000, total) ELSE 0]]
        overall_polarity ==
            IF total # 0
            THEN mean_by_sentiment["positif"] - mean_by_sentiment["negatif"]
            ELSE 0
        wc == compute_word_cloud(results, DefaultTopN)
    IN  IF sc.raised # "none" THEN Raised(sc.raised)
        ELSE IF wc.raised # "none" THEN Raised(wc.raised)
        ELSE Returned([total_texts |-> total,
                       average_score |-> average_score,
                       dominant_sentiment |-> dominant_sentiment,
                       distribution |-> distribution,
                       mean_scores |-> mean_by_sentiment,
                       overall_polarity |-> overall_polarity,
                       word_cloud |-> wc.ret])

-----------------------------------------------------------------------------
(* The aggregator study: summarise_results and compute_word_cloud on every *)
(* list of at most MaxRecords Records of the pool.                         *)

StudyTexts == {
    <<"s", "e", "l", " ", "l", "e", "s", " ", "b", "a", "l">>,   \* sel les bal
    <<"b", "a", "l", " ", "s", "e", "l", " ", "s", "e", "l">>,   \* bal sel sel
    <<"L", "e", "s", " ", "l", "'", "a", "s", " ", "l", "e", " ", "'", "v", "i", "e", "'">> }
                                                      \* Les l'as le 'vie'

StudySentiments == CategorySet \cup {"LABEL_3"}

RecordPool ==
    {[text |-> t, clean_text |-> t, sentiment |-> c, score |-> 9500] :
        t \in StudyTexts, c \in StudySentiments}

TopNs == {1, 2, DefaultTopN}

InitSumm ==
    /\ records \in SeqUpTo(RecordPool, MaxRecords)
    /\ top_n \in TopNs
    /\ summary = Idle /\ word_cloud = Idle
    /\ pc = "summarise"
    /\ ServiceIdle /\ CleanIdle /\ ChooseIdle /\ BuildIdle

Summarise ==
    /\ pc = "summarise"
    /\ summary' = summarise_results(records)
    /\ pc' = "cloud"
    /\ UNCHANGED <<records, top_n, word_cloud,
                   varsService, varsClean, varsChoose, varsBuild>>

WordCloud ==
    /\ pc = "cloud"
    /\ word_cloud' = compute_word_cloud(records, top_n)
    /\ pc' = "done"
    /\ UNCHANGED <<records, top_n, summary,
                   varsService, varsClean, varsChoose, varsBuild>>

NextSumm == Summarise \/ WordCloud

SpecSumm == InitSumm /\ [][NextSumm]_vars

\* How many Records of the list have category c, and where the first is.
CountOf(rs, c) == Cardinality({i \in 1..Len(rs) : rs[i].sentiment = c})
FirstOf(rs, c) ==
    CHOOSE i \in 1..Len(rs) :
        rs[i].sentiment = c /\ \A j \in 1..(i - 1) : rs[j].sentiment # c

Summarised == pc \in {"cloud", "done"} /\ records # <<>> /\ summary.raised = "none"

\* C1 as stated: the dominant sentiment has the maximum count, and among the
\* categories sharing it, it is the first in the order positif, neutre,
\* negatif, whatever the order of the Records.
C1_DominantByFixedOrder ==
    Summarised =>
        \E d \in 1..Len(Categories) :
            /\ summary.ret.dominant_sentiment = Categories[d]
            /\ \A c \in 1..Len(Categories) :
                 CountOf(records, Categories[c]) <= CountOf(records, Categories[d])
            /\ \A c \in 1..(d - 1) :
                 CountOf(records, Categories[c]) < CountOf(records, Categories[d])

\* C1 amended: whenever summarise_results returns for a non-empty list, the
\* dominant sentiment has the maximum count, and among the categories
\* sharing it, it is the one whose first Record comes earliest in the list.
C1_DominantByFirstEncounter ==
    Summarised =>
        LET d == summary.ret.dominant_sentiment IN
        /\ d \in CategorySet
        /\ CountOf(records, d) > 0
        /\ \A c \in CategorySet : CountOf(records, c) <= CountOf(records, d)
        /\ \A c \in CategorySet \ {d} :
             CountOf(records, c) = CountOf(records, d)
                => FirstOf(records, d) < FirstOf(records, c)

\* C1 witness: positif and negatif tie for the maximum, a negatif Record
\* comes first, and negatif is reported.
C1_Witness ==
    /\ Summarised
    /\ CountOf(records, "positif") = CountOf(records, "negatif")
    /\ CountOf(records, "positif") > CountOf(records, "neutre")
    /\ records[1].sentiment = "negatif"
    /\ summary.ret.dominant_sentiment = "negatif"


\* Every token of the Records of category c, in the order of the Records,
\* before any filtering.
RECURSIVE TokenStream(_, _)
TokenStream(rs, c) ==
    IF rs = <<>> THEN <<>>
    ELSE (IF Head(rs).sentiment = c
          THEN findall_tokens(lower(Head(rs).clean_text)) ELSE <<>>)
         \o TokenStream(Tail(rs), c)

FirstSeen(stream, tok) ==
    CHOOSE i \in 1..Len(stream) :
        stream[i] = tok /\ \A j \in 1..(i - 1) : stream[j] # tok

CloudComputed == pc = "done" /\ word_cloud.raised = "none"

\* C8: for Records of the three known categories, each category's word list
\* holds no stopword and no token of length <= 2, has at most top_n entries,
\* is ordered by non-increasing count, and lists tokens of equal count in
\* the order they were first met among that category's Records.
C8_WordCloudLists ==
    CloudComputed =>
        \A c \in CategorySet :
            LET list == word_cloud.ret[c]
                stream == TokenStream(records, c)
            IN  /\ Len(list) <= top_n
                /\ \A i \in 1..Len(list) :
                     /\ list[i].text \notin STOPWORDS
                     /\ Len(list[i].text) > 2
                     /\ \E k \in 1..Len(stream) : stream[k] = list[i].text
                /\ \A i, j \in 1..Len(list) :
                     i < j =>
                        /\ list[i].value >= list[j].value
                        /\ list[i].value = list[j].value =>
                             FirstSeen(stream, list[i].text)
                                < FirstSeen(stream, list[j].text)

\* C8 witness: a category whose Records hold a stopword, a short token and
\* more than two distinct kept tokens gets a list cut to top_n = 2 entries
\* of equal count.
C8_Witness ==
    /\ CloudComputed
    /\ top_n = 2
    /\ \E c \in CategorySet :
         LET list == word_cloud.ret[c]
             stream == TokenStream(records, c)
         IN  /\ Len(list) = 2
             /\ list[1].value = list[2].value
             /\ \E k \in 1..Len(stream) : stream[k] \in STOPWORDS
             /\ \E k \in 1..Len(stream) : Len(stream[k]) <= 2
             /\ Cardinality({stream[k] : k \in 1..Len(stream)} \ STOPWORDS) > 3


-----------------------------------------------------------------------------
(* Tables.  A DataFrame is its ordered column names and, per column, the   *)
(* cells in row order.  A cell is a string or missing (NaN).               *)

NaN == [nan |-> TRUE, str |-> <<>>]
Str(s) == [nan |-> FALSE, str |-> s]

NRows(df) == IF df.columns = <<>> THEN 0 ELSE Len(df.data[df.columns[1]])
ColumnSet(df) == {df.columns[i] : i \in 1..Len(df.columns)}

\* The subsequence of xs at the indices of keep, in order.
RECURSIVE SelectFrom(_, _, _)
SelectFrom(xs, keep, i) ==
    IF i > Len(xs) THEN <<>>
    ELSE (IF i \in keep THEN <<xs[i]>> ELSE <<>>) \o SelectFrom(xs, keep, i + 1)

\* df.dropna(how="all"), app.py:174
dropna_all(df) ==
    LET keep == {i \in 1..NRows(df) : \E c \in ColumnSet(df) : ~df.data[c][i].nan}
    IN  [columns |-> df.columns,
         data |-> [c \in ColumnSet(df) |-> SelectFrom(df.data[c], keep, 1)]]

\* Series.fillna("") followed by str(raw_text), app.py:243-244
fillna_str(cell) == IF cell.nan THEN Nothing ELSE cell.str

\* len(x.split()): the number of maximal runs of non-whitespace.
RECURSIVE DropUntil(_, _)
DropUntil(s, cls) ==
    IF s = <<>> \/ Head(s) \in cls THEN s ELSE DropUntil(Tail(s), cls)

RECURSIVE WordCount(_)
WordCount(s) ==
    LET t == DropWhile(s, Whitespace) IN
    IF t = <<>> THEN 0 ELSE 1 + WordCount(DropUntil(t, Whitespace))

SampleSize == 200

\* app.py:132-139 for one column.  Every cell that is not missing is a
\* string, so the dtype test passes exactly when the sample is not empty.
is_text_candidate(series) ==
    LET present == SelectFrom(series, {i \in 1..Len(series) : ~series[i].nan}, 1)
        sample == SubSeq(present, 1, IF Len(present) < SampleSize
                                      THEN Len(present) ELSE SampleSize)
        words == [i \in 1..Len(sample) |-> WordCount(sample[i].str)]
    IN  /\ sample # <<>>
        /\ SumSeq(words) >= 2 * Len(sample)        \* mean >= 2

\* detect_text_columns, app.py:129-140
detect_text_columns(df) ==
    SelectFrom(df.columns,
               {i \in 1..Len(df.columns) : is_text_candidate(df.data[df.columns[i]])},
               1)

-----------------------------------------------------------------------------
(* map_label and build_results, app.py:237-260.  The classifier PIPELINE   *)
(* is external: the oracle gives, for the n-th invocation of a request,    *)
(* either a failure or a label and a raw score (in hundred-thousandths).   *)

LABEL_TRANSLATIONS ==
    [LABEL_0 |-> "negatif", LABEL_1 |-> "neutre", LABEL_2 |-> "positif",
     negative |-> "negatif", neutral |-> "neutre", positive |-> "positif"]

map_label(label) ==
    IF label \in DOMAIN LABEL_TRANSLATIONS THEN LABEL_TRANSLATIONS[label] ELSE label

\* round(float(score), 4): hundred-thousandths to ten-thousandths
round4(raw) == RoundDiv(raw, 10)

\* A plausible slip: blank rows are not skipped.
is_skipped_never(cleaned) == FALSE

\* app.py:246
is_skipped(cleaned) == cleaned = Nothing

\* A plausible slip: an empty result list is returned instead of raising.
nothing_processed_ignored(processed) == FALSE

\* app.py:258
nothing_processed(processed) == processed = <<>>

RECURSIVE build_loop(_, _, _, _)
build_loop(cells, oracle, processed, calls) ==
    IF cells = <<>>
    THEN IF nothing_processed(processed)
         THEN [raised |-> "HTTP400_no_valid_text", processed |-> processed, calls |-> calls]
         ELSE [raised |-> "none", processed |-> processed, calls |-> calls]
    ELSE LET raw_text == fillna_str(Head(cells))
             cleaned == clean_text(raw_text)
         IN  IF is_skipped(cleaned)
             THEN build_loop(Tail(cells), oracle, processed, calls)
             ELSE LET prediction == oracle[calls + 1] IN
                  IF prediction.fails
                  THEN [raised |-> "ClassifierError", processed |-> processed,
                        calls |-> calls + 1]
                  ELSE build_loop(Tail(cells), oracle,
                         Append(processed,
                                [text |-> raw_text,
                                 clean_text |-> cleaned,
                                 sentiment |-> map_label(prediction.label),
                                 score |-> round4(prediction.score)]),
                         calls + 1)

\* df[column] raises KeyError for a name that is not a column.
build_results(df, column, oracle) ==
    IF column \notin ColumnSet(df)
    THEN [raised |-> "KeyError", processed |-> <<>>, calls |-> 0]
    ELSE build_loop(df.data[column], oracle, <<>>, 0)

-----------------------------------------------------------------------------
(* The request handlers, app.py:277-340.  Each returns the store it leaves *)
(* and the response; a handler runs without suspending once it touches     *)
(* UPLOAD_STORE, so each is one step.                                      *)

UploadIds == <<"u1", "u2">>
UploadIdSet == {UploadIds[i] : i \in 1..Len(UploadIds)}

\* uuid.uuid4(): an identifier no entry has.  Which one is drawn makes no
\* difference to the handlers; the first unused one is taken.
uuid4(store) ==
    UploadIds[CHOOSE i \in 1..Len(UploadIds) :
                /\ UploadIds[i] \notin DOMAIN store
                /\ \A j \in 1..(i - 1) : UploadIds[j] \in DOMAIN store]

NoBody == <<>>

Response(op, id, column, status, detail) ==
    [op |-> op, upload_id |-> id, column |-> column, status |-> status,
     detail |-> detail, calls |-> 0, summarised |-> 0, built |-> FALSE,
     body |-> NoBody]

\* upload_file, app.py:277-298, with dataframe_from_upload, app.py:152-175
upload_file(store, file) ==
    IF file.contents = "empty"
    THEN [store |-> store,
          response |-> Response("upload", "", <<>>, 400, "empty_file")]
    ELSE IF file.contents = "unreadable"
    THEN [store |-> store,
          response |-> Response("upload", "", <<>>, 400, "unreadable")]
    ELSE IF NRows(file.df) = 0
    THEN [store |-> store,
          response |-> Response("upload", "", <<>>, 400, "no_data")]
    ELSE LET df == dropna_all(file.df)
             cols == detect_text_columns(df)
             detected_column == choose_default_column(cols)
             upload_id == uuid4(store)
         IN  IF ~detected_column.some
             THEN [store |-> store,
                   response |-> Response("upload", "", <<>>, 422, "no_text_column")]
             ELSE [store |-> (upload_id :> [dataframe |-> df, filename |-> file.filename])
                             @@ store,
                   response |->
                     [Response("upload", upload_id, <<>>, 200, "ok") EXCEPT
                        !.body = [upload_id |-> upload_id, columns |-> cols,
                                  detected_column |-> detected_column.val]]]

\* A plausible slip: the column name is not validated.
column_valid_always(df, column) == TRUE

\* app.py:310
column_valid(df, column) == column \in ColumnSet(df)

\* A plausible slip: the results are stored before the summary is computed.
store_when_summarise_raises_early(store, id, results) ==
    [store EXCEPT ![id] = ("results" :> results) @@ @]

\* app.py:314-315: an exception of summarise_results leaves line 315 unreached.
store_when_summarise_raises(store, id, results) == store

\* app.py:315-316
store_analysis(store, id, results, sm) ==
    [store EXCEPT ![id] = ("summary" :> sm) @@ ("results" :> results) @@ @]

\* analyze, app.py:301-318
analyze(store, payload, oracle) ==
    LET id == payload.upload_id
        column == payload.column
        Reply(status, detail) == Response("analyze", id, column, status, detail)
    IN
    IF id \notin DOMAIN store
    THEN [store |-> store, response |-> Reply(404, "upload_not_found")]
    ELSE
    LET df == store[id].dataframe IN
    IF ~column_valid(df, column)
    THEN [store |-> store, response |-> Reply(400, "invalid_column")]
    ELSE
    LET br == build_results(df, column, oracle) IN
    IF br.raised = "HTTP400_no_valid_text"
    THEN [store |-> store,
          response |-> [Reply(400, "no_valid_text") EXCEPT !.calls = br.calls]]
    ELSE IF br.raised # "none"
    THEN [store |-> store,
          response |-> [Reply(500, br.raised) EXCEPT !.calls = br.calls]]
    ELSE
    LET sm == summarise_results(br.processed) IN
    IF sm.raised # "none"
    THEN [store |-> store_when_summarise_raises(store, id, br.processed),
          response |-> [Reply(500, sm.raised) EXCEPT
                          !.calls = br.calls, !.summarised = 1, !.built = TRUE]]
    ELSE [store |-> store_analysis(store, id, br.processed, sm.ret),
          response |-> [Reply(200, "ok") EXCEPT
                          !.calls = br.calls, !.summarised = 1, !.built = TRUE,
                          !.body = [results |-> br.processed, summary |-> sm.ret]]]

\* csv quoting (QUOTE_MINIMAL): a field holding the delimiter, a quote or a
\* line break is wrapped in quotes, its quotes doubled.
CsvSpecial == {",", "QUOTE", "CR", "LF"}

RECURSIVE DoubleQuotes(_)
DoubleQuotes(s) ==
    IF s = <<>> THEN <<>>
    ELSE (IF Head(s) = "QUOTE" THEN <<"QUOTE", "QUOTE">> ELSE <<Head(s)>>)
         \o DoubleQuotes(Tail(s))

csv_quote(s) ==
    IF \E i \in 1..Len(s) : s[i] \in CsvSpecial
    THEN <<"QUOTE">> \o DoubleQuotes(s) \o <<"QUOTE">>
    ELSE s

\* A plausible slip: index=False is left out, so every line starts with the
\* row index.
to_csv_with_index(results) ==
    <<<<"", "text", "clean_text", "sentiment", "score">>>> \o
    [i \in 1..Len(results) |->
        <<i - 1, csv_quote(results[i].text), csv_quote(results[i].clean_text),
          results[i].sentiment, results[i].score>>]

\* pd.DataFrame(results).to_csv(index=False), app.py:327-329: the header
\* line, then one line per item, the fields in the items' key order.
to_csv(results) ==
    <<<<"text", "clean_text", "sentiment", "score">>>> \o
    [i \in 1..Len(results) |->
        <<csv_quote(results[i].text), csv_quote(results[i].clean_text),
          results[i].sentiment, results[i].score>>]

\* download_results_csv, app.py:321-340
download_results_csv(store, id) ==
    IF id \notin DOMAIN store \/ "results" \notin DOMAIN store[id]
    THEN [store |-> store,
          response |-> Response("download", id, <<>>, 404, "results_not_found")]
    ELSE [store |-> store,
          response |-> [Response("download", id, <<>>, 200, "ok") EXCEPT
                          !.body = to_csv(store[id].results)]]

-----------------------------------------------------------------------------
(* The build_results study: every column of at most MaxRows cells, with    *)
(* every answer of the classifier to each invocation.                      *)

TextA == <<"s", "e", "l", ",", " ", "b", "a", "l">>                  \* sel, bal
TextB == <<"L", "e", "s", " ", "QUOTE", "b", "a", "l", "QUOTE">>      \* Les "bal"
Blank == <<"!", " ", "!">>                                            \* ! !
IdText == <<"l", "7">>                                                \* l7

StudyCells == {NaN, Str(Nothing), Str(Blank), Str(TextA), Str(TextB)}

Failure == [fails |-> TRUE, label |-> "", score |-> 0]
Answer(label) == [fails |-> FALSE, label |-> label, score |-> 94996]

StudyPredictions == {Failure, Answer("LABEL_0"), Answer("LABEL_3")}

Series == <<"s", "e", "r", "i", "e", "s">>

InitBuild ==
    /\ col_cells \in SeqUpTo(StudyCells, MaxRows)
    /\ answers \in [1..Len(col_cells) -> StudyPredictions]
    /\ built = Idle
    /\ pc = "build"
    /\ ServiceIdle /\ CleanIdle /\ ChooseIdle /\ SummIdle

Build ==
    /\ pc = "build"
    /\ built' = build_results([columns |-> <<Series>>, data |-> (Series :> col_cells)],
                              Series, answers)
    /\ pc' = "built"
    /\ UNCHANGED <<col_cells, answers, varsService, varsClean, varsChoose, varsSumm>>

NextBuild == Build

SpecBuild == InitBuild /\ [][NextBuild]_vars

\* The rows whose cleaned cell text is not empty, missing cells counting as
\* empty.
KeptRows(cells) ==
    {i \in 1..Len(cells) :
        LET c == cells[i] IN (IF c.nan THEN Nothing ELSE clean_text(c.str)) # Nothing}

BuildReturned == pc = "built" /\ built.raised = "none"

\* C3: when build_results returns, its Records are exactly the rows whose
\* cleaned cell text is not empty, in row order: as many Records as such
\* rows (so at most the number of rows), the i-th Record carrying the text
\* and the cleaned text of the i-th such row.
C3_RecordsAreKeptRows ==
    BuildReturned =>
        LET kept == SelectFrom(col_cells, KeptRows(col_cells), 1) IN
        /\ Len(built.processed) = Cardinality(KeptRows(col_cells))
        /\ Len(built.processed) <= Len(col_cells)
        /\ \A i \in 1..Len(built.processed) :
             /\ ~kept[i].nan
             /\ built.processed[i].text = kept[i].str
             /\ built.processed[i].clean_text = clean_text(kept[i].str)

\* C3 witness: a column with a missing cell and a cell that cleans to
\* nothing gave two Records with different texts.
C3_Witness ==
    /\ BuildReturned
    /\ \E i \in 1..Len(col_cells) : col_cells[i].nan
    /\ \E i \in 1..Len(col_cells) : col_cells[i] = Str(Blank)
    /\ Len(built.processed) >= 1
    /\ Len(built.processed) < Len(col_cells)

-----------------------------------------------------------------------------
(* The service: any sequence of upload, analyze and download requests.     *)

Avis == <<"a", "v", "i", "s">>
Id == <<"i", "d">>
Prix == <<"p", "r", "i", "x">>

\* The free-text column of the uploaded files.
AvisColumns == {
    <<>>,
    <<NaN>>,
    <<NaN, Str(Blank)>>,
    <<Str(TextA), NaN, Str(TextB)>> }

\* The parsed files: the free-text column, alone or after a column of
\* one-word codes.
Tables ==
    UNION {
        {[columns |-> <<Avis>>, data |-> (Avis :> cells)],
         [columns |-> <<Id, Avis>>,
          data |-> (Id :> [i \in 1..Len(cells) |-> Str(IdText)]) @@ (Avis :> cells)]} :
        cells \in AvisColumns }

EmptyDf == [columns |-> <<>>, data |-> <<>>]

Files ==
    {[contents |-> c, df |-> EmptyDf, filename |-> "avis.csv"] :
        c \in {"empty", "unreadable"}}
    \cup
    {[contents |-> "table", df |-> d, filename |-> "avis.csv"] : d \in Tables}

RequestColumns == {Avis, Id, Prix}

Predictions == {Failure, Answer("positive"), Answer("LABEL_3")}

Init ==
    /\ UPLOAD_STORE = <<>>
    /\ last = Response("none", "", <<>>, 0, "none")
    /\ analysed = <<>>
    /\ pc = "serving"
    /\ CleanIdle /\ ChooseIdle /\ SummIdle /\ BuildIdle

Upload ==
    /\ DOMAIN UPLOAD_STORE # UploadIdSet
    /\ \E file \in Files :
         LET r == upload_file(UPLOAD_STORE, file) IN
         /\ UPLOAD_STORE' = r.store
         /\ last' = r.response
    /\ UNCHANGED <<analysed, pc, varsClean, varsChoose, varsSumm, varsBuild>>

\* How many times a request can invoke the classifier: once per row of the
\* chosen column that is not skipped.
MaxCalls(store, id, column) ==
    IF id \in DOMAIN store /\ column \in ColumnSet(store[id].dataframe)
    THEN Cardinality(KeptRows(store[id].dataframe.data[column]))
    ELSE 0

\* The classifier's answers are drawn per request, one per invocation; the
\* answers that are never asked for are left at Failure.
Analyze ==
    /\ \E id \in UploadIdSet, column \in RequestColumns :
         \E oracle \in [1..MaxCalls(UPLOAD_STORE, id, column) -> Predictions] :
            LET r == analyze(UPLOAD_STORE, [upload_id |-> id, column |-> column],
                             oracle)
            IN  /\ \A i \in DOMAIN oracle :
                      i > r.response.calls => oracle[i] = Failure
                /\ UPLOAD_STORE' = r.store
                /\ last' = r.response
                /\ analysed' = IF r.response.status = 200
                               THEN (id :> r.response.body.results) @@ analysed
                               ELSE analysed
    /\ UNCHANGED <<pc, varsClean, varsChoose, varsSumm, varsBuild>>

Download ==
    /\ \E id \in UploadIdSet :
         LET r == download_results_csv(UPLOAD_STORE, id) IN
         /\ UPLOAD_STORE' = r.store
         /\ last' = r.response
    /\ UNCHANGED <<analysed, pc, varsClean, varsChoose, varsSumm, varsBuild>>

Next == Upload \/ Analyze \/ Download

Spec == Init /\ [][Next]_vars

-----------------------------------------------------------------------------
(* Claims about the service.  `last` is the request handled by the step    *)
(* that led to the current state, so last' describes the step itself.      *)

StoredTable(id) == UPLOAD_STORE[id].dataframe

\* Request rq was an analyze of a column of a table of the store in which
\* every cell is empty or missing once cleaned.
AllEmptyRequest(rq, store) ==
    /\ rq.op = "analyze"
    /\ rq.upload_id \in DOMAIN store
    /\ rq.column \in ColumnSet(store[rq.upload_id].dataframe)
    /\ KeptRows(store[rq.upload_id].dataframe.data[rq.column]) = {}

AnalyzedAllEmpty == AllEmptyRequest(last, UPLOAD_STORE)

\* C4: an analyze of a column whose cells are all empty or missing after
\* cleaning is rejected with the no-valid-text error: build_results raises
\* instead of returning, summarise_results and the classifier are not
\* invoked, and the store is left as it was.
C4_NoAnalyzableTextRejected ==
    /\ [](AnalyzedAllEmpty =>
            /\ last.status = 400 /\ last.detail = "no_valid_text"
            /\ ~last.built
            /\ last.summarised = 0
            /\ last.calls = 0)
    /\ [][AllEmptyRequest(last', UPLOAD_STORE) => UPLOAD_STORE' = UPLOAD_STORE]_vars

\* C4 witness: the rejected column holds a missing cell and a cell that
\* cleans to nothing, in a session that already has results.
C4_Witness ==
    /\ AnalyzedAllEmpty
    /\ last.detail = "no_valid_text"
    /\ LET cells == StoredTable(last.upload_id).data[last.column] IN
       /\ \E i \in 1..Len(cells) : cells[i].nan
       /\ \E i \in 1..Len(cells) : cells[i] = Str(Blank)
    /\ "results" \in DOMAIN UPLOAD_STORE[last.upload_id]

\* Request rq was an analyze of a session of the store with a name that is
\* not a column of its table.
UnknownColumnRequest(rq, store) ==
    /\ rq.op = "analyze"
    /\ rq.upload_id \in DOMAIN store
    /\ rq.column \notin ColumnSet(store[rq.upload_id].dataframe)

AnalyzedUnknownColumn == UnknownColumnRequest(last, UPLOAD_STORE)

\* C5: an analyze with a name that is not a column of the stored table is
\* rejected with the invalid-column error, the classifier is not invoked,
\* and the store is left as it was.
C5_InvalidColumnRejected ==
    /\ [](AnalyzedUnknownColumn =>
            /\ last.status = 400 /\ last.detail = "invalid_column"
            /\ last.calls = 0
            /\ ~last.built)
    /\ [][UnknownColumnRequest(last', UPLOAD_STORE) => UPLOAD_STORE' = UPLOAD_STORE]_vars

\* C5 witness: the rejected request names a column that another layout has,
\* for a session that already has results and a summary.
C5_Witness ==
    /\ AnalyzedUnknownColumn
    /\ last.column = Id
    /\ last.detail = "invalid_column"
    /\ {"results", "summary"} \subseteq DOMAIN UPLOAD_STORE[last.upload_id]

\* C6: whenever build_results returned a Record list, summarise_results
\* yields a Summary whose three counts add up to total_texts.
C6_CountsSumToTotal ==
    (last.op = "analyze" /\ last.built) =>
        /\ last.status = 200
        /\ LET sm == last.body.summary IN
           SumSeq([i \in 1..Len(Categories) |->
                      sm.distribution[Categories[i]].count]) = sm.total_texts

\* An entry has results and summary together or not at all, and the summary
\* is the one of exactly those results.
EntryConsistent(entry) ==
    /\ "results" \in DOMAIN entry <=> "summary" \in DOMAIN entry
    /\ "results" \in DOMAIN entry =>
          summarise_results(entry.results) = Returned(entry.summary)

\* C9: in every state each session has neither results nor summary, or both
\* with the summary computed from those results; an analyze that fails
\* leaves the store as it was; an analyze never adds or removes a session
\* nor changes the entry of another session.
C9_AnalyzeAtomicPerSession ==
    /\ [](\A id \in DOMAIN UPLOAD_STORE : EntryConsistent(UPLOAD_STORE[id]))
    /\ [][last'.op = "analyze" =>
            /\ last'.status # 200 => UPLOAD_STORE' = UPLOAD_STORE
            /\ DOMAIN UPLOAD_STORE' = DOMAIN UPLOAD_STORE
            /\ \A id \in DOMAIN UPLOAD_STORE \ {last'.upload_id} :
                  UPLOAD_STORE'[id] = UPLOAD_STORE[id]]_vars

\* C9 witness: summarising failed for a session that holds results, while
\* another session holds results of its own.
C9_Witness ==
    /\ last.op = "analyze" /\ last.detail = "KeyError" /\ last.summarised = 1
    /\ "results" \in DOMAIN UPLOAD_STORE[last.upload_id]
    /\ \E other \in DOMAIN UPLOAD_STORE \ {last.upload_id} :
          /\ "results" \in DOMAIN UPLOAD_STORE[other]
          /\ UPLOAD_STORE[other].results # UPLOAD_STORE[last.upload_id].results

\* Reading a csv field back.
RECURSIVE UndoubleQuotes(_)
UndoubleQuotes(s) ==
    IF s = <<>> THEN <<>>
    ELSE IF Len(s) >= 2 /\ s[1] = "QUOTE" /\ s[2] = "QUOTE"
         THEN <<"QUOTE">> \o UndoubleQuotes(Tail(Tail(s)))
         ELSE <<Head(s)>> \o UndoubleQuotes(Tail(s))

csv_unquote(f) ==
    IF Len(f) >= 2 /\ f[1] = "QUOTE" /\ f[Len(f)] = "QUOTE"
    THEN UndoubleQuotes(SubSeq(f, 2, Len(f) - 1))
    ELSE f

\* C10: a download is rejected as not found while no analyze of the session
\* has succeeded; afterwards it is the header text, clean_text, sentiment,
\* score followed by one line per Record of the session's most recent
\* successful analyze, in Record order.
C10_CsvOfLatestAnalysis ==
    last.op = "download" =>
        IF last.upload_id \in DOMAIN analysed
        THEN LET rs == analysed[last.upload_id]
                 csv == last.body
             IN  /\ last.status = 200
                 /\ Len(csv) = 1 + Len(rs)
                 /\ csv[1] = <<"text", "clean_text", "sentiment", "score">>
                 /\ \A i \in 1..Len(rs) :
                      /\ Len(csv[i + 1]) = 4
                      /\ csv_unquote(csv[i + 1][1]) = rs[i].text
                      /\ csv_unquote(csv[i + 1][2]) = rs[i].clean_text
                      /\ csv[i + 1][3] = rs[i].sentiment
                      /\ csv[i + 1][4] = rs[i].score
        ELSE last.status = 404

\* C10 witness: a download of two different Records, the first with a field
\* that had to be quoted.
C10_Witness ==
    /\ last.op = "download" /\ last.status = 200
    /\ Len(last.body) = 3
    /\ last.body[2][1][1] = "QUOTE"
    /\ last.body[2][1] # last.body[3][1]
    /\ last.body[2][1] # analysed[last.upload_id][1].text

=============================================================================
